---- MODULE Spec2Model ----
(***************************************************************************)
(* CodeBoarding-MCP: the markdown aggregator (utils/read_repo.py), its     *)
(* file cache, and the text formatter (utils/format.py).                   *)
(*                                                                         *)
(* Text is a sequence of atoms.  An atom is a string standing for one      *)
(* indivisible piece of text: a character ("/", "_", "\n", " "), or a      *)
(* word the code never looks inside.  Every literal the code searches for  *)
(* ("on_boarding", ".md", "### [FAQ]", a badge, an <a> link) is an atom of *)
(* its own, and no other atom contains it.                                 *)
(***************************************************************************)
EXTENDS Integers, Sequences, FiniteSets, TLC

\* ------------------------------------------------------------------ bounds
\* Concurrent callers of the cached entry point.
NumProcs == 2
\* Entries of a tree listing.
MaxTree == 2
\* Node declarations and edges of a mermaid block.
MaxNodes == 2
MaxEdges == 2

\* get_markdown's default token budget.
DefaultTokenBudget == 10000

\* ------------------------------------------------------- python str helpers
Min(a, b) == IF a < b THEN a ELSE b
Max(a, b) == IF a < b THEN b ELSE a

IsWs(a) == a \in {" ", "\n"}

RECURSIVE LStrip(_)
LStrip(t) == IF t # <<>> /\ IsWs(Head(t)) THEN LStrip(Tail(t)) ELSE t

RECURSIVE RStrip(_)
RStrip(t) ==
    IF t # <<>> /\ IsWs(t[Len(t)]) THEN RStrip(SubSeq(t, 1, Len(t) - 1)) ELSE t

\* str.strip()
Strip(t) == LStrip(RStrip(t))

RECURSIVE LStripChar(_, _)
LStripChar(t, c) == IF t # <<>> /\ Head(t) = c THEN LStripChar(Tail(t), c) ELSE t

RECURSIVE RStripChar(_, _)
RStripChar(t, c) ==
    IF t # <<>> /\ t[Len(t)] = c
    THEN RStripChar(SubSeq(t, 1, Len(t) - 1), c) ELSE t

\* str.strip(c)
StripChar(t, c) == LStripChar(RStripChar(t, c), c)

\* str.replace(c, r) for a one-atom needle c
RECURSIVE Replace(_, _, _)
Replace(t, c, r) ==
    IF t = <<>> THEN <<>>
    ELSE (IF Head(t) = c THEN r ELSE <<Head(t)>>) \o Replace(Tail(t), c, r)

\* sep.join(parts)
RECURSIVE Join(_, _)
Join(ps, sep) ==
    IF ps = <<>> THEN <<>>
    ELSE IF Len(ps) = 1 THEN ps[1]
    ELSE ps[1] \o sep \o Join(Tail(ps), sep)

StartsWith(t, p) == Len(p) <= Len(t) /\ SubSeq(t, 1, Len(p)) = p
EndsWith(t, s) == Len(s) <= Len(t) /\ SubSeq(t, Len(t) - Len(s) + 1, Len(t)) = s

\* needle in t
Contains(t, s) ==
    \E i \in 1..(Len(t) - Len(s) + 1) : SubSeq(t, i, i + Len(s) - 1) = s

\* t.split(c)[-1]
SplitLast(t, c) ==
    LET idx == {i \in 1..Len(t) : t[i] = c}
    IN  IF idx = {} THEN t
        ELSE SubSeq(t, (CHOOSE i \in idx : \A j \in idx : j <= i) + 1, Len(t))

\* t.rsplit(c, 1)[0]
RSplitHead(t, c) ==
    LET idx == {i \in 1..Len(t) : t[i] = c}
    IN  IF idx = {} THEN t
        ELSE SubSeq(t, 1, (CHOOSE i \in idx : \A j \in idx : j <= i) - 1)

\* seq[:n] with Python's meaning of a negative n
SliceTo(s, n) ==
    IF n >= 0 THEN SubSeq(s, 1, Min(n, Len(s)))
    ELSE SubSeq(s, 1, Max(Len(s) + n, 0))

\* seq[a:b] with Python's meaning of negative a, b
Slice(s, a, b) ==
    LET lo == IF a >= 0 THEN Min(a, Len(s)) ELSE Max(Len(s) + a, 0)
        hi == IF b >= 0 THEN Min(b, Len(s)) ELSE Max(Len(s) + b, 0)
    IN  SubSeq(s, lo + 1, hi)

\* ------------------------------------------------------------- cache key
\* Python's None for the optional code_repo argument.
None == <<"None">>

\* read_repo.py 154-160: the cache file of a call.
CacheFile(docs_repo, subdir_prefix, inline_code, code_repo) ==
    LET code      == IF code_repo = None THEN docs_repo ELSE code_repo
        safe_docs == Replace(docs_repo, "/", <<"_", "_">>)
        safe_sub  == Replace(StripChar(subdir_prefix, "/"), "/", <<"_", "_">>)
        safe_code == Replace(code, "/", <<"_", "_">>)
    IN  <<".cache", "/">> \o safe_docs \o <<"_", "_">> \o safe_sub
          \o <<"_", "_">> \o safe_code \o <<"_", "_">>
          \o <<IF inline_code THEN "inline" ELSE "raw">> \o <<".md">>

\* ------------------------------------------------------------ numbers
DigitChars == <<"0", "1", "2", "3", "4", "5", "6", "7", "8", "9">>

\* int(s) of a digit string
RECURSIVE IntOf(_)
IntOf(ds) ==
    IF ds = <<>> THEN 0
    ELSE 10 * IntOf(SubSeq(ds, 1, Len(ds) - 1))
         + ((CHOOSE k \in 1..10 : DigitChars[k] = ds[Len(ds)]) - 1)

\* str(n) for n >= 0, as f"{n}" renders it
RECURSIVE StrOf(_)
StrOf(n) ==
    IF n < 10 THEN <<DigitChars[n + 1]>>
    ELSE StrOf(n \div 10) \o <<DigitChars[(n % 10) + 1]>>

\* --------------------------------------------------------- tokenizers
\* tokenizer.encode / TOKEN_ENCODER.encode: byte-pair tokens over the
\* atoms.  A token is a non-empty run of atoms: a space joins the word that
\* follows it (the " ?\p{L}+" pre-token of both encodings), every other atom
\* is a token of its own.
RECURSIVE Encode(_)
Encode(t) ==
    IF t = <<>> THEN <<>>
    ELSE IF Len(t) >= 2 /\ t[1] = " " /\ ~IsWs(t[2])
         THEN <<SubSeq(t, 1, 2)>> \o Encode(SubSeq(t, 3, Len(t)))
         ELSE <<SubSeq(t, 1, 1)>> \o Encode(Tail(t))

\* tokenizer.decode
RECURSIVE Decode(_)
Decode(toks) == IF toks = <<>> THEN <<>> ELSE Head(toks) \o Decode(Tail(toks))

\* read_repo.py 50-52
count_tokens(text) == Len(Encode(text))

\* ------------------------------------------------- responses of the host
\* What requests.get gives: a response (ok or not) or a raised exception.
\* "ok" carries the body, a sequence of lines (resp.text.splitlines()).
Raises(r) == r.kind \in {"timeout", "connerr"}

SourceFiles ==
    { <<>>, << <<"l1">>, <<"l2", " ", "l2b">>, <<"l3">> >> }

SnippetResponses ==
    { [kind |-> "ok", lines |-> f] : f \in SourceFiles }
    \cup { [kind |-> k, lines |-> <<>>] : k \in {"non2xx", "timeout", "connerr"} }

\* ------------------------------------------------------- format.py: links
\* The <a href="https://github.com/o/r/blob/B/P#LS-LE">X (S:E)</a> markups
\* of the documents, one atom each, with the groups the pattern captures.
LinkAtoms == {"<a foo 1-2>", "<a foo 2-9>", "<a bar 03-3>", "<a bar 3-1>"}

LinkOf(a) ==
    CASE a = "<a foo 1-2>"  -> [symbol |-> "foo", path |-> "pkg/mod.py",
                                start |-> <<"1">>, end |-> <<"2">>]
      [] a = "<a foo 2-9>"  -> [symbol |-> "foo", path |-> "pkg/mod.py",
                                start |-> <<"2">>, end |-> <<"9">>]
      [] a = "<a bar 03-3>" -> [symbol |-> "bar", path |-> "lib.py",
                                start |-> <<"0", "3">>, end |-> <<"3">>]
      [] a = "<a bar 3-1>"  -> [symbol |-> "bar", path |-> "lib.py",
                                start |-> <<"3">>, end |-> <<"1">>]

\* format.py 106: f"{symbol} ({path}: lines {start}<en dash>{end})"; the
\* atom "&ndash;" is the en dash.
BaseText(l) ==
    <<l.symbol, " ", "(", l.path, ":", " ", "lines", " ">>
      \o StrOf(IntOf(l.start)) \o <<"&ndash;">> \o StrOf(IntOf(l.end)) \o <<")">>

\* format.py 116-126: the try block; NoSnippet is snippet = None.
NoSnippet == <<"None">>

FetchSnippetKeepsError(l, resp) ==
    IF resp.kind # "ok" THEN <<"fetch", " ", "failed">>
    ELSE Join(Slice(resp.lines, IntOf(l.start) - 1, IntOf(l.end)), <<"\n">>)

FetchSnippet(l, resp) ==
    IF resp.kind # "ok" THEN NoSnippet
    ELSE Join(Slice(resp.lines, IntOf(l.start) - 1, IntOf(l.end)), <<"\n">>)

\* format.py 98-130; "<fence python>" and "<fence>" are the opening and the
\* closing line of the fenced block.
replacer(a, inline_code, resp, encoder) ==
    LET l       == LinkOf(a)
        snippet == FetchSnippet(l, resp)
        token_info ==
            IF encoder /\ snippet # NoSnippet /\ snippet # <<>>
            THEN <<"\n", "[Token count:", " ">> \o StrOf(count_tokens(snippet))
                   \o <<"]">>
            ELSE <<>>
    IN  IF ~inline_code THEN BaseText(l)
        ELSE IF snippet # NoSnippet /\ snippet # <<>>
             THEN BaseText(l) \o <<"\n", "<fence python>", "\n">> \o snippet
                    \o <<"\n", "<fence>">> \o token_info
             ELSE BaseText(l)

NumLinks(md) == Cardinality({i \in 1..Len(md) : md[i] \in LinkAtoms})

\* format.py 68-132: pattern.sub(replacer, markdown); resps are the
\* responses to the fetches, one per link, in order.
RECURSIVE format_github_html_links_to_plaintext(_, _, _, _)
format_github_html_links_to_plaintext(md, inline_code, resps, encoder) ==
    IF md = <<>> THEN <<>>
    ELSE IF Head(md) \in LinkAtoms
         THEN replacer(Head(md), inline_code, Head(resps), encoder)
                \o format_github_html_links_to_plaintext(
                       Tail(md), inline_code, Tail(resps), encoder)
         ELSE <<Head(md)>>
                \o format_github_html_links_to_plaintext(
                       Tail(md), inline_code, resps, encoder)

\* ----------------------------------------------------- format.py: mermaid
\* A mermaid block after the two findall calls: the node declarations
\* id["label"] and the edges src -- "label" --> dst, in source order.
\* format.py 42: dict(findall): a key keeps its first place and its last label.
RECURSIVE NodeKeys(_)
NodeKeys(decls) ==
    IF decls = <<>> THEN <<>>
    ELSE LET rest == NodeKeys(SubSeq(decls, 1, Len(decls) - 1))
             k    == decls[Len(decls)][1]
         IN  IF \E i \in 1..Len(rest) : rest[i] = k THEN rest
             ELSE Append(rest, k)

IsNode(decls, id) == \E i \in 1..Len(decls) : decls[i][1] = id

\* nodes.get(id, id)
NodeName(decls, id) ==
    IF IsNode(decls, id)
    THEN decls[CHOOSE i \in 1..Len(decls) :
                   /\ decls[i][1] = id
                   /\ \A j \in 1..Len(decls) : decls[j][1] = id => j <= i][2]
    ELSE id

\* format.py 47-51
Forward(edges, key) == SelectSeq(edges, LAMBDA e : e[1] = key)
Reverse(edges, key) == SelectSeq(edges, LAMBDA e : e[3] = key)

\* format.py 56-59
RECURSIVE ForwardLines(_, _)
ForwardLines(decls, fwd) ==
    IF fwd = <<>> THEN <<>>
    ELSE << <<" ", " ", fwd[1][2], ":">>,
            <<" ", " ", "-", " ", NodeName(decls, fwd[1][3])>> >>
         \o ForwardLines(decls, Tail(fwd))

\* format.py 61: key not in [d for _, d in forward.get(src, [])]
NotMirrored(edges, key, src) ==
    ~ \E i \in 1..Len(Forward(edges, src)) : Forward(edges, src)[i][3] = key

\* format.py 60-64
RECURSIVE ReverseLines(_, _, _, _)
ReverseLines(decls, edges, key, rev) ==
    IF rev = <<>> THEN <<>>
    ELSE (IF NotMirrored(edges, key, rev[1][1])
          THEN << <<" ", " ", rev[1][2], " ", "by:">>,
                  <<" ", " ", "-", " ", NodeName(decls, rev[1][1])>> >>
          ELSE <<>>)
         \o ReverseLines(decls, edges, key, Tail(rev))

\* format.py 54-65
RECURSIVE NodeLines(_, _, _)
NodeLines(decls, edges, ks) ==
    IF ks = <<>> THEN <<>>
    ELSE << <<"-", " ", NodeName(decls, ks[1])>> >>
         \o ForwardLines(decls, Forward(edges, ks[1]))
         \o ReverseLines(decls, edges, ks[1], Reverse(edges, ks[1]))
         \o << <<>> >>
         \o NodeLines(decls, edges, Tail(ks))

\* format.py 36-66: the lines of the summary; the result is "\n".join(lines)
SummaryLines(m) ==
    << <<"**Core Components:**">>, <<>> >>
      \o NodeLines(m.nodes, m.edges, NodeKeys(m.nodes))

format_mermaid_to_llm_markdown_no_links(m) == Join(SummaryLines(m), <<"\n">>)

\* The fenced mermaid blocks of the documents, one atom each, with what the
\* block declares once convert_mermaid has dropped its graph and click lines.
MermaidAtoms == {"<mermaid A calls B>"}

MermaidOf(a) ==
    [nodes |-> << <<"A", "Alpha">>, <<"B", "Beta">> >>,
     edges |-> << <<"A", "calls", "B">> >>]

\* format.py 12-33
RECURSIVE replace_mermaid_blocks(_)
replace_mermaid_blocks(md) ==
    IF md = <<>> THEN <<>>
    ELSE (IF Head(md) \in MermaidAtoms
          THEN format_mermaid_to_llm_markdown_no_links(MermaidOf(Head(md)))
          ELSE <<Head(md)>>)
         \o replace_mermaid_blocks(Tail(md))

\* ------------------------------------------------ read_repo.py: snippets
\* read_repo.py 27-47: the snippet of a reference, "" when the fetch fails.
extract_code_from_github_url(l, resp) ==
    IF resp.kind # "ok" THEN <<>>
    ELSE LET start == IntOf(l.start)
             end   == IntOf(l.end)
         IN  Join(SubSeq(resp.lines, Max(0, start - 1) + 1,
                         Min(Len(resp.lines), end)), <<"\n">>)

\* REF_PATTERN (read_repo.py 15-18) at the head of t: "-", whitespace, then
\* a reference "symbol (path: lines S-E)".  The link whose reference is
\* there, or "" when there is none.
RefAt(t) ==
    IF t = <<>> \/ Head(t) # "-" THEN ""
    ELSE LET u  == LStrip(Tail(t))
             ls == {a \in LinkAtoms : StartsWith(u, BaseText(LinkOf(a)))}
         IN  IF ls = {} THEN "" ELSE CHOOSE a \in ls : TRUE

\* The atoms REF_PATTERN matches at the head of t (m.group(0)).
RefLen(t) ==
    1 + (Len(Tail(t)) - Len(LStrip(Tail(t)))) + Len(BaseText(LinkOf(RefAt(t))))

RECURSIVE NumRefs(_)
NumRefs(t) ==
    IF t = <<>> THEN 0
    ELSE IF RefAt(t) # "" THEN 1 + NumRefs(SubSeq(t, RefLen(t) + 1, Len(t)))
    ELSE NumRefs(Tail(t))

\* read_repo.py 55-70: resps are the responses to the snippet fetches, one
\* per reference, in order.
RECURSIVE add_num_tokens_per_inline(_, _)
add_num_tokens_per_inline(t, resps) ==
    IF t = <<>> THEN <<>>
    ELSE IF RefAt(t) # ""
    THEN LET snippet   == extract_code_from_github_url(LinkOf(RefAt(t)), Head(resps))
             tok_count == IF snippet # <<>> THEN count_tokens(snippet) ELSE 0
         IN  SubSeq(t, 1, RefLen(t))
               \o <<" ", "[">> \o StrOf(tok_count) \o <<" ", "tokens]">>
               \o add_num_tokens_per_inline(
                      SubSeq(t, RefLen(t) + 1, Len(t)), Tail(resps))
    ELSE <<Head(t)>> \o add_num_tokens_per_inline(Tail(t), resps)

\* --------------------------------------------- read_repo.py: aggregation
OnBoarding == <<"on_boarding", ".md">>

\* read_repo.py 95-100
RECURSIVE MdFiles(_, _)
MdFiles(tree, subdir_prefix) ==
    IF tree = <<>> THEN <<>>
    ELSE (IF /\ Head(tree).type = "blob"
             /\ EndsWith(Head(tree).path, <<".md">>)
             /\ StartsWith(Head(tree).path, subdir_prefix)
          THEN <<Head(tree).path>> ELSE <<>>)
         \o MdFiles(Tail(tree), subdir_prefix)

\* read_repo.py 102-105: the first path that contains 'on_boarding.md' moves
\* to the front.
Prioritize(files) ==
    LET hits == {i \in 1..Len(files) : Contains(files[i], OnBoarding)}
    IN  IF hits = {} THEN files
        ELSE LET i == CHOOSE k \in hits : \A j \in hits : k <= j
             IN  <<files[i]>> \o SubSeq(files, 1, i - 1)
                   \o SubSeq(files, i + 1, Len(files))

\* read_repo.py 109-110
Header(subdir_prefix) ==
    <<"\n", "\n", "#", " ">> \o SplitLast(RStripChar(subdir_prefix, "/"), "/")
      \o <<" ", "Architecture Overview", "\n", "\n">>

\* read_repo.py 119-124
SectionHeader(md_path) ==
    LET comp == RSplitHead(SplitLast(md_path, "/"), ".md")
    IN  IF comp = <<"on_boarding">>
        THEN <<"##", " ", "System Architecture of the Whole Project:">>
        ELSE <<"##", " ", "System Architecture Overview of Component:", " ">>
               \o comp \o <<"\n", "\n">>

\* read_repo.py 127
FailedFetch(md_path) ==
    <<"\n", "\n", "#", " ">> \o md_path \o <<" ", "(Failed fetch)", "\n", "\n">>

\* read_repo.py 115-127: the section of one fetched file.
Section(md_path, resp, inline_code, resps, encoder) ==
    IF resp.kind = "ok"
    THEN LET content == IF inline_code THEN replace_mermaid_blocks(resp.text)
                        ELSE resp.text
         IN  SectionHeader(md_path)
               \o format_github_html_links_to_plaintext(
                      content, inline_code, resps, encoder)
    ELSE FailedFetch(md_path)

FaqMarker == "### [FAQ]"

\* read_repo.py 130: re.sub(r"### \[FAQ\].*", "", combined); "." stops at a
\* line break.
RECURSIVE RestOfLine(_)
RestOfLine(t) == IF t = <<>> \/ Head(t) = "\n" THEN t ELSE RestOfLine(Tail(t))

RECURSIVE StripFaq(_)
StripFaq(t) ==
    IF t = <<>> THEN <<>>
    ELSE IF Head(t) = FaqMarker THEN StripFaq(RestOfLine(t))
    ELSE <<Head(t)>> \o StripFaq(Tail(t))

Badge == "[![b](i)](l)"

\* read_repo.py 131: chains of badges, with the whitespace after each
RECURSIVE StripBadges(_)
StripBadges(t) ==
    IF t = <<>> THEN <<>>
    ELSE IF Head(t) = Badge THEN StripBadges(LStrip(Tail(t)))
    ELSE <<Head(t)>> \o StripBadges(Tail(t))

\* read_repo.py 129-131
Combined(ps) == StripBadges(StripFaq(Join(ps, <<"\n", "\n">>)))

\* A Python value that is an int or a str (only its type matters for a str).
PyInt(n) == [t |-> "int", n |-> n]
PyStr == [t |-> "str", n |-> 0]

\* read_repo.py 136-140; the comparison of an int with a str raises.
Truncated(combined, token_budget) ==
    LET all_tokens == Encode(combined)
    IN  Strip(IF Len(all_tokens) > token_budget.n
              THEN Decode(SliceTo(all_tokens, token_budget.n))
              ELSE combined)

\* read_repo.py 164: aggregate_markdown(docs_repo, subdir_prefix,
\* inline_code, code_repo) binds its parameters (73-79) by position: the
\* fourth, token_budget, receives code_repo, a str, and code_repo itself is
\* left None, which line 90-91 turns into docs_repo.
AggregateArgsByKeyword(docs_repo, subdir_prefix, inline_code, code_repo) ==
    [docs_repo |-> docs_repo, subdir_prefix |-> subdir_prefix,
     inline_code |-> inline_code, token_budget |-> PyInt(DefaultTokenBudget),
     code_repo |-> code_repo, cache |-> TRUE]

AggregateArgs(docs_repo, subdir_prefix, inline_code, code_repo) ==
    [docs_repo |-> docs_repo, subdir_prefix |-> subdir_prefix,
     inline_code |-> inline_code, token_budget |-> PyStr,
     code_repo |-> docs_repo, cache |-> TRUE]

\* ------------------------------------------------------------------ state
VARIABLES
    TOKEN_ENCODER,  \* format.py 5-9: whether tiktoken was importable
    cache,          \* the files of .cache/: path -> content
    pc,             \* where each caller is in get_markdown
    arg,            \* the arguments of the running aggregate_markdown call
    md_files,       \* read_repo.py 95
    parts,          \* read_repo.py 111
    combined,       \* read_repo.py 129-133, as line 135 reads it
    ret,            \* what the call gave its caller
    called,         \* the cache files of the cached calls a caller has made
                    \* and seen end with every request answered
    step,           \* formatter and cache-key runs: "input" or "applied"
    keys, files,    \* two argument tuples and their cache files
    mermaid, summary,   \* a mermaid block and its summary lines
    page, plain     \* a markdown text with a link, and its plaintext

mainVars == <<TOKEN_ENCODER, cache, pc, arg, md_files, parts, combined, ret, called>>
pureVars == <<step, keys, files, mermaid, summary, page, plain>>
vars == <<mainVars, pureVars>>

Procs == 1..NumProcs

DocsRepo == <<"o", "/", "r">>
Prefix == <<"a", "/">>

NoArgs ==
    [docs_repo |-> <<>>, subdir_prefix |-> <<>>, inline_code |-> FALSE,
     token_budget |-> PyInt(0), code_repo |-> <<>>, cache |-> FALSE]

NoRet == [outcome |-> "none", value |-> <<>>, hit |-> FALSE]

Returned(v, h) == [outcome |-> "returned", value |-> v, hit |-> h]
Raised(e) == [outcome |-> e, value |-> <<>>, hit |-> FALSE]

\* ----------------------------------------------------------------- inputs
\* The token budgets a caller of the uncached entry point passes.
Budgets == {0, 1, 3, DefaultTokenBudget}

\* get_markdown(repo_name, inline_code=, cache=, token_budget=)
Calls ==
    { [repo_name |-> Prefix, inline_code |-> i, cache |-> TRUE,
       token_budget |-> DefaultTokenBudget] : i \in BOOLEAN }
    \cup { [repo_name |-> Prefix, inline_code |-> i, cache |-> FALSE,
            token_budget |-> b] : i \in BOOLEAN, b \in Budgets }

CachedCalls == {c \in Calls : c.cache}

CacheFileOf(a) == CacheFile(a.docs_repo, a.subdir_prefix, a.inline_code, a.code_repo)

CacheFiles == { CacheFile(DocsRepo, c.repo_name, c.inline_code, DocsRepo) : c \in Calls }

\* Cache directories a run can start from: any of the files may be there,
\* left by an earlier run.
CacheInits ==
    UNION { [fs -> { <<"##", " ", "stale">> }] : fs \in SUBSET CacheFiles }

\* The entries of the tree the hosting API lists.
TreeEntries ==
    { [path |-> <<"a", "/", "on_boarding", ".md">>, type |-> "blob"],
      [path |-> <<"a", "/", "x", ".md">>, type |-> "blob"],
      [path |-> <<"a", "/", "my_", "on_boarding", ".md">>, type |-> "blob"],
      [path |-> <<"a", "/", "d", ".md">>, type |-> "tree"],
      [path |-> <<"b", "/", "y", ".md">>, type |-> "blob"],
      [path |-> <<"a", "/", "z", ".txt">>, type |-> "blob"] }

Listings(entries, n) ==
    UNION { { t \in [1..k -> entries] : \A i, j \in 1..k : t[i] = t[j] => i = j }
            : k \in 0..n }

\* The answers to the tree request: a listing, a non-2xx answer (JSON with
\* no "tree"), a body that is not the expected JSON, a timeout, a
\* connection error.
TreeResponsesOf(listings) ==
    { [kind |-> "ok", tree |-> t] : t \in listings }
    \cup { [kind |-> k, tree |-> <<>>]
           : k \in {"non2xx", "malformed", "timeout", "connerr"} }

TreeResponses == TreeResponsesOf(Listings(TreeEntries, MaxTree))

\* The markdown files of the documentation repository.
DocPlain   == <<"w", "\n">>
DocFaq     == <<"w", "\n", FaqMarker, " ", "q1", "\n", "q2", "\n">>
DocLink    == <<"-", " ", "<a foo 1-2>", "\n">>
DocBadge   == <<Badge, "\n", Badge, " ", "w2">>
DocMermaid == <<"<mermaid A calls B>", "\n", "w3">>

MdResponsesOf(docs) ==
    { [kind |-> "ok", text |-> d] : d \in docs }
    \cup { [kind |-> k, text |-> <<>>] : k \in {"non2xx", "timeout", "connerr"} }

MdResponses == MdResponsesOf({DocPlain, DocFaq, DocLink, DocBadge, DocMermaid})

\* The answers to n snippet fetches, in order; none are made when fetch
\* is FALSE.
SnippetAnswers(n, fetch) ==
    IF fetch THEN [1..n -> SnippetResponses]
    ELSE { [i \in 1..n |-> [kind |-> "non2xx", lines |-> <<>>]] }

\* ---------------------------------------------------------------- actions
\* read_repo.py 170-185: get_markdown; the token budget goes to the uncached
\* call only.
GetMarkdown(p, calls) ==
    /\ pc[p] = "idle"
    /\ \E c \in calls :
         /\ arg' = [arg EXCEPT ![p] =
                [docs_repo |-> DocsRepo, subdir_prefix |-> c.repo_name,
                 inline_code |-> c.inline_code,
                 token_budget |-> PyInt(c.token_budget),
                 code_repo |-> DocsRepo, cache |-> c.cache]]
         /\ pc' = [pc EXCEPT ![p] = IF c.cache THEN "lookup" ELSE "tree"]
    /\ UNCHANGED <<TOKEN_ENCODER, cache, md_files, parts, combined, ret, called>>
    /\ UNCHANGED pureVars

\* read_repo.py 154-164: the file is returned when it exists; otherwise
\* aggregate_markdown is called.
CachedLookup(p) ==
    /\ pc[p] = "lookup"
    /\ LET cache_file == CacheFileOf(arg[p])
       IN  IF cache_file \in DOMAIN cache
           THEN /\ ret' = [ret EXCEPT ![p] = Returned(cache[cache_file], TRUE)]
                /\ pc' = [pc EXCEPT ![p] = "done"]
                /\ arg' = arg
           ELSE /\ arg' = [arg EXCEPT ![p] =
                       AggregateArgs(arg[p].docs_repo, arg[p].subdir_prefix,
                                     arg[p].inline_code, arg[p].code_repo)]
                /\ pc' = [pc EXCEPT ![p] = "tree"]
                /\ ret' = ret
    /\ UNCHANGED <<TOKEN_ENCODER, cache, md_files, parts, combined, called>>
    /\ UNCHANGED pureVars

\* read_repo.py 93-111: the tree request, the filter, the reordering and
\* the document header.  A raised exception ends the call.
ListTree(p, responses) ==
    /\ pc[p] = "tree"
    /\ \E resp \in responses :
         IF resp.kind \in {"timeout", "connerr"}
         THEN /\ ret' = [ret EXCEPT ![p] = Raised("RequestException")]
              /\ pc' = [pc EXCEPT ![p] = "done"]
              /\ UNCHANGED <<md_files, parts>>
         ELSE IF resp.kind = "malformed"
         THEN /\ ret' = [ret EXCEPT ![p] = Raised("JSONDecodeError")]
              /\ pc' = [pc EXCEPT ![p] = "done"]
              /\ UNCHANGED <<md_files, parts>>
         ELSE /\ md_files' = [md_files EXCEPT ![p] =
                     Prioritize(MdFiles(resp.tree, arg[p].subdir_prefix))]
              /\ parts' = [parts EXCEPT ![p] = <<Header(arg[p].subdir_prefix)>>]
              /\ pc' = [pc EXCEPT ![p] = "fetch"]
              /\ ret' = ret
    /\ UNCHANGED <<TOKEN_ENCODER, cache, arg, combined, called>>
    /\ UNCHANGED pureVars

\* read_repo.py 112-127: one turn of the loop, for the next file.
FetchMd(p, responses) ==
    /\ pc[p] = "fetch"
    /\ Len(parts[p]) <= Len(md_files[p])
    /\ LET md_path == md_files[p][Len(parts[p])]
       IN  \E resp \in responses :
             IF Raises(resp)
             THEN /\ ret' = [ret EXCEPT ![p] = Raised("RequestException")]
                  /\ pc' = [pc EXCEPT ![p] = "done"]
                  /\ parts' = parts
             ELSE \E resps \in SnippetAnswers(NumLinks(resp.text),
                                              arg[p].inline_code) :
                    /\ parts' = [parts EXCEPT ![p] =
                           Append(@, Section(md_path, resp, arg[p].inline_code,
                                             resps, TOKEN_ENCODER))]
                    /\ UNCHANGED <<ret, pc>>
    /\ UNCHANGED <<TOKEN_ENCODER, cache, arg, md_files, combined, called>>
    /\ UNCHANGED pureVars

\* read_repo.py 129-133: join, strip the FAQ and the badges, annotate.
Combine(p) ==
    /\ pc[p] = "fetch"
    /\ Len(parts[p]) = Len(md_files[p]) + 1
    /\ LET c == Combined(parts[p])
       IN  \E resps \in SnippetAnswers(NumRefs(c), ~arg[p].inline_code) :
             combined' = [combined EXCEPT ![p] =
                 IF arg[p].inline_code THEN c
                 ELSE add_num_tokens_per_inline(c, resps)]
    /\ pc' = [pc EXCEPT ![p] = "truncate"]
    /\ UNCHANGED <<TOKEN_ENCODER, cache, arg, md_files, parts, ret, called>>
    /\ UNCHANGED pureVars

\* read_repo.py 165-166
Store(c, cache_file, content) ==
    [f \in DOMAIN c \cup {cache_file} |->
        IF f = cache_file THEN content ELSE c[f]]

\* read_repo.py 135-140, and for a cached call 164-167: the result is
\* written to the cache file and returned.
Truncate(p) ==
    /\ pc[p] = "truncate"
    /\ IF arg[p].token_budget.t # "int"
       THEN /\ ret' = [ret EXCEPT ![p] = Raised("TypeError")]
            /\ cache' = cache
       ELSE LET content == Truncated(combined[p], arg[p].token_budget)
            IN  /\ ret' = [ret EXCEPT ![p] = Returned(content, FALSE)]
                /\ cache' = IF arg[p].cache
                            THEN Store(cache, CacheFileOf(arg[p]), content)
                            ELSE cache
    /\ pc' = [pc EXCEPT ![p] = "done"]
    /\ UNCHANGED <<TOKEN_ENCODER, arg, md_files, parts, combined, called>>
    /\ UNCHANGED pureVars

\* The caller has the result (or the exception) and is free to call again.
Return(p) ==
    /\ pc[p] = "done"
    /\ called' = [called EXCEPT ![p] =
           IF arg[p].cache /\ ret[p].outcome \in {"returned", "TypeError"}
           THEN @ \cup {CacheFileOf(arg[p])} ELSE @]
    /\ pc' = [pc EXCEPT ![p] = "idle"]
    /\ arg' = [arg EXCEPT ![p] = NoArgs]
    /\ md_files' = [md_files EXCEPT ![p] = <<>>]
    /\ parts' = [parts EXCEPT ![p] = <<>>]
    /\ combined' = [combined EXCEPT ![p] = <<>>]
    /\ ret' = [ret EXCEPT ![p] = NoRet]
    /\ UNCHANGED <<TOKEN_ENCODER, cache>>
    /\ UNCHANGED pureVars

\* --------------------------------------------------------- specifications
NoPage == [md |-> <<>>, inline_code |-> FALSE, resps |-> <<>>]

IdlePure ==
    /\ step = "input"
    /\ keys = <<>> /\ files = <<>>
    /\ mermaid = [nodes |-> <<>>, edges |-> <<>>] /\ summary = <<>>
    /\ page = NoPage /\ plain = <<>>

IdleMain ==
    /\ cache = <<>>
    /\ pc = [p \in Procs |-> "idle"]
    /\ arg = [p \in Procs |-> NoArgs]
    /\ md_files = [p \in Procs |-> <<>>]
    /\ parts = [p \in Procs |-> <<>>]
    /\ combined = [p \in Procs |-> <<>>]
    /\ ret = [p \in Procs |-> NoRet]
    /\ called = [p \in Procs |-> {}]

\* One caller, every entry point, every answer of the host.
Init ==
    /\ TOKEN_ENCODER \in BOOLEAN
    /\ cache \in CacheInits
    /\ pc = [p \in Procs |-> "idle"]
    /\ arg = [p \in Procs |-> NoArgs]
    /\ md_files = [p \in Procs |-> <<>>]
    /\ parts = [p \in Procs |-> <<>>]
    /\ combined = [p \in Procs |-> <<>>]
    /\ ret = [p \in Procs |-> NoRet]
    /\ called = [p \in Procs |-> {}]
    /\ IdlePure

Next ==
    \E p \in {1} :
       \/ GetMarkdown(p, Calls)
       \/ CachedLookup(p)
       \/ ListTree(p, TreeResponses)
       \/ FetchMd(p, MdResponses)
       \/ Combine(p)
       \/ Truncate(p)
       \/ Return(p)

Spec == Init /\ [][Next]_vars

\* Callers of the cached entry point, running concurrently on one cache
\* directory, with one key.
ConcCalls == {c \in CachedCalls : c.inline_code}

ConcTree ==
    TreeResponsesOf({ <<>>,
        << [path |-> <<"a", "/", "on_boarding", ".md">>, type |-> "blob"] >> })

ConcMd == MdResponsesOf({DocPlain, DocFaq})

NextConc ==
    \E p \in Procs :
       \/ GetMarkdown(p, ConcCalls)
       \/ CachedLookup(p)
       \/ ListTree(p, ConcTree)
       \/ FetchMd(p, ConcMd)
       \/ Combine(p)
       \/ Truncate(p)
       \/ Return(p)

SpecConc == Init /\ [][NextConc]_vars

\* The cache file of two argument tuples.
KeyRepos == { <<"o", "/", "r">>, <<"o">> }

KeyPrefixes ==
    { <<"a">>, <<"a", "/">>, <<"r", "/", "a">>, <<"a", "/", "b">>,
      <<"a", "_", "_", "b">> }

KeyArgs ==
    [docs_repo : KeyRepos, subdir_prefix : KeyPrefixes,
     inline_code : BOOLEAN, code_repo : KeyRepos \cup {None}]

InitKey ==
    /\ TOKEN_ENCODER = FALSE
    /\ IdleMain
    /\ step = "input"
    /\ keys \in KeyArgs \X KeyArgs
    /\ files = <<>>
    /\ mermaid = [nodes |-> <<>>, edges |-> <<>>] /\ summary = <<>>
    /\ page = NoPage /\ plain = <<>>

CachePaths ==
    /\ step = "input"
    /\ step' = "applied"
    /\ files' = <<CacheFileOf(keys[1]), CacheFileOf(keys[2])>>
    /\ UNCHANGED <<keys, mermaid, summary, page, plain>>
    /\ UNCHANGED mainVars

SpecKey == InitKey /\ [][CachePaths]_vars

\* The summary of a mermaid block.
NodeDecls == { <<"A", "Alpha">>, <<"B", "Beta">>, <<"A", "Again">> }

EdgeDecls == {"A", "B", "C"} \X {"calls", "uses"} \X {"A", "B", "C"}

SeqsUpTo(S, n) == UNION { [1..k -> S] : k \in 0..n }

InitMermaid ==
    /\ TOKEN_ENCODER = FALSE
    /\ IdleMain
    /\ step = "input"
    /\ keys = <<>> /\ files = <<>>
    /\ mermaid \in [nodes : SeqsUpTo(NodeDecls, MaxNodes),
                    edges : SeqsUpTo(EdgeDecls, MaxEdges)]
    /\ summary = <<>>
    /\ page = NoPage /\ plain = <<>>

FormatMermaid ==
    /\ step = "input"
    /\ step' = "applied"
    /\ summary' = SummaryLines(mermaid)
    /\ UNCHANGED <<keys, files, mermaid, page, plain>>
    /\ UNCHANGED mainVars

SpecMermaid == InitMermaid /\ [][FormatMermaid]_vars

\* The plaintext of a markdown text with one link.
LinkPages ==
    { <<a>> : a \in LinkAtoms } \cup { <<"-", " ", a, "\n", "w">> : a \in LinkAtoms }

InitLinks ==
    /\ TOKEN_ENCODER \in BOOLEAN
    /\ IdleMain
    /\ step = "input"
    /\ keys = <<>> /\ files = <<>>
    /\ mermaid = [nodes |-> <<>>, edges |-> <<>>] /\ summary = <<>>
    /\ page \in [md : LinkPages, inline_code : BOOLEAN,
                 resps : [1..1 -> SnippetResponses]]
    /\ plain = <<>>

FormatLinks ==
    /\ step = "input"
    /\ step' = "applied"
    /\ plain' = format_github_html_links_to_plaintext(
                    page.md, page.inline_code, page.resps, TOKEN_ENCODER)
    /\ UNCHANGED <<keys, files, mermaid, summary, page>>
    /\ UNCHANGED mainVars

SpecLinks == InitLinks /\ [][FormatLinks]_vars

\* ------------------------------------------------------------------ claims
Aggregating(p) == pc[p] \in {"tree", "fetch", "truncate"}

Alone(p) == \A q \in Procs \ {p} : pc[q] = "idle" /\ called[q] = {}

\* C1: two cached calls with the same arguments, from an empty cache
\* directory, aggregate at most once: the first call, its requests answered,
\* returns the aggregate and leaves it in the cache file, and a second call
\* by the same caller does not aggregate again.
C1_CachedTwiceAggregatesOnce ==
    \A p \in Procs :
       /\ ( /\ pc[p] = "done" /\ arg[p].cache /\ ~ret[p].hit
            /\ ret[p].outcome \notin {"RequestException", "JSONDecodeError"} )
          => /\ ret[p].outcome = "returned"
             /\ CacheFileOf(arg[p]) \in DOMAIN cache
             /\ cache[CacheFileOf(arg[p])] = ret[p].value
       /\ (arg[p].cache /\ Aggregating(p) /\ Alone(p))
          => CacheFileOf(arg[p]) \notin called[p]

\* C2: whatever the host answers, a call gives its caller a string and
\* never ends with an exception.
C2_NeverRaises ==
    \A p \in Procs : pc[p] = "done" => ret[p].outcome = "returned"

BaseName(path) == SplitLast(path, "/")

FromOnBoarding(p, section) ==
    \/ StartsWith(section, <<"##", " ", "System Architecture of the Whole Project:">>)
    \/ \E i \in 1..Len(md_files[p]) :
          BaseName(md_files[p][i]) = OnBoarding /\ section = FailedFetch(md_files[p][i])

\* C3: when a matched file is named on_boarding.md, the first section of
\* the aggregate is the one derived from it.
C3_OnBoardingFirst ==
    \A p \in Procs :
       ( /\ Len(parts[p]) = Len(md_files[p]) + 1
         /\ \E i \in 1..Len(md_files[p]) : BaseName(md_files[p][i]) = OnBoarding )
       => FromOnBoarding(p, parts[p][2])

\* C4: with a token budget (not negative) below the token count of the
\* combined document, the returned string re-tokenizes to exactly the first
\* token_budget tokens of the combined document.
C4_ExactlyBudgetTokens ==
    \A p \in Procs :
       ( /\ pc[p] = "done" /\ ret[p].outcome = "returned" /\ ~ret[p].hit
         /\ arg[p].token_budget.n >= 0
         /\ arg[p].token_budget.n < Len(Encode(combined[p])) )
       => /\ Len(Encode(ret[p].value)) = arg[p].token_budget.n
          /\ Encode(ret[p].value)
               = SubSeq(Encode(combined[p]), 1, arg[p].token_budget.n)

Atoms(t) == {t[i] : i \in 1..Len(t)}

\* C8: when the joined sections hold an FAQ marker, nothing that follows
\* the marker is returned: a word found only after the first marker is not
\* in the aggregate.
C8_FaqCutToEnd ==
    \A p \in Procs :
       (pc[p] = "done" /\ ret[p].outcome = "returned" /\ ~ret[p].hit)
       => LET joined == Join(parts[p], <<"\n", "\n">>)
          IN  \A i \in 1..Len(joined) :
                 joined[i] = FaqMarker
                 => \A j \in (i + 1)..Len(joined) :
                       ( /\ ~IsWs(joined[j])
                         /\ joined[j] \notin Atoms(SubSeq(joined, 1, i - 1)) )
                       => joined[j] \notin Atoms(ret[p].value)

\* C9: whatever fetches fail, the aggregation goes on: when the call ends
\* there is one section per matched file, in order, the placeholder naming
\* the path where the fetch failed.
C9_OneSectionPerFile ==
    \A p \in Procs :
       (pc[p] = "done" /\ parts[p] # <<>>)
       => /\ Len(parts[p]) = Len(md_files[p]) + 1
          /\ \A i \in 1..Len(md_files[p]) :
                \/ parts[p][i + 1] = FailedFetch(md_files[p][i])
                \/ StartsWith(parts[p][i + 1], SectionHeader(md_files[p][i]))

\* C5: every edge from a declared node into a declared node that the target
\* does not answer with an edge of its own back to the source gives, under the node's bullet, the
\* line "label by:" followed by the source; so for one edge A -> B labelled
\* "calls", B's bullet is followed by "calls by:" and A.
C5_ReciprocalEntry ==
    step = "applied"
    => \A k \in 1..Len(mermaid.edges) :
          LET src   == mermaid.edges[k][1]
              label == mermaid.edges[k][2]
              dst   == mermaid.edges[k][3]
          IN  ( /\ IsNode(mermaid.nodes, src)
                /\ IsNode(mermaid.nodes, dst)
                /\ ~ \E m \in 1..Len(mermaid.edges) :
                        mermaid.edges[m][1] = dst /\ mermaid.edges[m][3] = src )
              => \E i, j \in 1..Len(summary) :
                    /\ i < j /\ j < Len(summary)
                    /\ summary[i] = <<"-", " ", NodeName(mermaid.nodes, dst)>>
                    /\ \A n \in i..j : summary[n] # <<>>
                    /\ summary[j] = <<" ", " ", label, " ", "by:">>
                    /\ summary[j + 1]
                         = <<" ", " ", "-", " ", NodeName(mermaid.nodes, src)>>

\* The line 'X (P: lines S-E)' of each link, written out.
PlainLine(a) ==
    CASE a = "<a foo 1-2>"  ->
           <<"foo", " ", "(", "pkg/mod.py", ":", " ", "lines", " ", "1", "&ndash;", "2", ")">>
      [] a = "<a foo 2-9>"  ->
           <<"foo", " ", "(", "pkg/mod.py", ":", " ", "lines", " ", "2", "&ndash;", "9", ")">>
      [] a = "<a bar 03-3>" ->
           <<"bar", " ", "(", "lib.py", ":", " ", "lines", " ", "3", "&ndash;", "3", ")">>
      [] a = "<a bar 3-1>"  ->
           <<"bar", " ", "(", "lib.py", ":", " ", "lines", " ", "3", "&ndash;", "1", ")">>

RECURSIVE PlainPage(_)
PlainPage(md) ==
    IF md = <<>> THEN <<>>
    ELSE (IF Head(md) \in LinkAtoms THEN PlainLine(Head(md)) ELSE <<Head(md)>>)
         \o PlainPage(Tail(md))

FetchFailed == page.resps # <<>> /\ page.resps[1].kind \in {"non2xx", "timeout", "connerr"}

\* C6: with embedding enabled and the snippet fetch failing (non-2xx,
\* timeout, connection error) the link becomes exactly the line
\* 'X (P: lines S-E)', the text embedding disabled gives: no fenced block, no
\* token annotation.
C6_FailedFetchGivesPlainLine ==
    (step = "applied" /\ page.inline_code /\ FetchFailed)
    => /\ plain = PlainPage(page.md)
       /\ plain = format_github_html_links_to_plaintext(
                      page.md, FALSE, page.resps, TOKEN_ENCODER)
       /\ Atoms(plain) \cap {"<fence python>", "<fence>", "[Token count:"} = {}

C6_Witness ==
    /\ step = "applied" /\ page.inline_code /\ TOKEN_ENCODER
    /\ page.resps[1].kind = "timeout"
    /\ page.md = <<"-", " ", "<a bar 03-3>", "\n", "w">>
    /\ plain = <<"-", " ">> \o PlainLine("<a bar 03-3>") \o <<"\n", "w">>

EffectiveKey(k) ==
    <<k.docs_repo, k.subdir_prefix,
      IF k.code_repo = None THEN k.docs_repo ELSE k.code_repo, k.inline_code>>

\* C10: two argument tuples that differ never get the same cache file.
C10_CacheFileInjective ==
    step = "applied"
    => (files[1] = files[2] => EffectiveKey(keys[1]) = EffectiveKey(keys[2]))

====
